---- MODULE Spec2Model ----
(***************************************************************************)
(* Model of the semantic-search indexing core: SemanticStore.indexPath /   *)
(* SemanticStore.indexFile (src/src/config-manager.ts) over the sqlite-vec *)
(* SqliteStore (src/unnamed/part_005), with the provider calls of nlp.ts   *)
(* (src/unnamed/part_008) as suspension points.                            *)
(*                                                                         *)
(* JavaScript runs one callback at a time: every action below is the code  *)
(* that runs between two suspension points (an await on a provider call).  *)
(***************************************************************************)
EXTENDS Integers, Sequences, FiniteSets, TLC

\* ---------------------------------------------------------------- bounds
\* Number of modifications made to the files' contents.
MaxTouches == 1
\* Number of empty batches the loop of indexPath is followed through when
\* its index runs backwards (negative concurrency).
MaxBackSteps == 1
\* Longest array the rerank model answers with.
MaxRanking == 3

\* ------------------------------------------------------ program constants
DEFAULT_CONCURRENCY == 3
DEFAULT_TOP_K == 5
CANDIDATE_MULTIPLIER == 3
MIN_CANDIDATES == 10
\* Fixed-point unit: the real number 1.0 of an embedding component.
Unit == 10
\* Stand-in for the IEEE NaN value of a number[] element.
NaN == -999
\* Stand-in for the JSON value null in the place of a number.
JsNull == -998
\* Stand-in for the value undefined in the place of a number.
Undefined == -997
\* Stand-in for the IEEE values +Infinity and -Infinity.
Infinity == 999

\* --------------------------------------------------------------- helpers
Max(a, b) == IF a > b THEN a ELSE b
Min(a, b) == IF a < b THEN a ELSE b

Range(s) == { s[k] : k \in DOMAIN s }

\* Array.prototype.slice(start, end) of JavaScript.
Slice(s, a, b) ==
  LET n    == Len(s)
      from == IF a < 0 THEN Max(n + a, 0) ELSE Min(a, n)
      to   == IF b < 0 THEN Max(n + b, 0) ELSE Min(b, n)
  IN  IF from >= to THEN << >> ELSE SubSeq(s, from + 1, to)

\* ------------------------------------------------------------ file system
\* An absolute path: its directory and its file name split at the last dot,
\* the extension character by character.
F_readme == [dir |-> "docs", name |-> <<"readme", <<"m", "d">>>>]
F_logo   == [dir |-> "docs", name |-> <<"logo", <<"p", "n", "g">>>>]
F_notes  == [dir |-> "lib",  name |-> <<"NOTES", <<"T", "X", "T">>>>]

AllFiles == {F_readme, F_logo, F_notes}

\* fast-glob '**/*' with onlyFiles, absolute: the files below a directory.
Listing(d) ==
  CASE d = "docs" -> <<F_readme, F_logo>>
    [] d = "lib"  -> <<F_notes>>
    [] OTHER      -> <<F_readme, F_logo, F_notes>>

Dirs == {"docs", "."}

\* A path as a caller spells it: relative to the working directory or absolute.
Spellings == [file : AllFiles, rel : BOOLEAN]

\* The paths callers pass to indexFile.
SoloPaths == { [file |-> F_readme, rel |-> TRUE], [file |-> F_readme, rel |-> FALSE] }

\* The files that are edited while the store is in use.
Edited == {F_readme}

\* The paths callers pass to indexPath: a directory, or one file.
Targets == [kind : {"dir"}, dir : Dirs] \cup [kind : {"file"}, sp : {[file |-> F_readme, rel |-> TRUE]}]

\* options.concurrency as callers pass it; 0 also stands for "not given".
ConcurrencyOptions == {-1, 0, 1}

\* path.resolve: both spellings of a file give its absolute path.
resolve(sp) == sp.file

\* The characters a string of this module can hold are the code points below
\* 256; these are the ones among them that toLowerCase changes (A-Z and the
\* capital letters of Latin-1), each at the place of its lower-case form.
UpperCase == <<"A", "B", "C", "D", "E", "F", "G", "H", "I", "J", "K", "L", "M",
               "N", "O", "P", "Q", "R", "S", "T", "U", "V", "W", "X", "Y", "Z",
               "À", "Á", "Â", "Ã", "Ä", "Å", "Æ", "Ç", "È", "É", "Ê", "Ë", "Ì",
               "Í", "Î", "Ï", "Ð", "Ñ", "Ò", "Ó", "Ô", "Õ", "Ö", "Ø", "Ù", "Ú",
               "Û", "Ü", "Ý", "Þ">>
LowerCase == <<"a", "b", "c", "d", "e", "f", "g", "h", "i", "j", "k", "l", "m",
               "n", "o", "p", "q", "r", "s", "t", "u", "v", "w", "x", "y", "z",
               "à", "á", "â", "ã", "ä", "å", "æ", "ç", "è", "é", "ê", "ë", "ì",
               "í", "î", "ï", "ð", "ñ", "ò", "ó", "ô", "õ", "ö", "ø", "ù", "ú",
               "û", "ü", "ý", "þ">>

\* The lower-case form of one character: the letters of UpperCase change, all
\* other characters (digits, punctuation, lower-case letters, the sharp s,
\* the micro sign and the multiplication sign among them) stay.
LowerChar(c) ==
  IF \E k \in DOMAIN UpperCase : UpperCase[k] = c
  THEN LowerCase[CHOOSE k \in DOMAIN UpperCase : UpperCase[k] = c]
  ELSE c

\* String.prototype.toLowerCase, a string being its characters in sequence.
toLowerCase(s) == [k \in DOMAIN s |-> LowerChar(s[k])]

\* The alternatives of the regular expression of isTextLike.
TextExtensions ==
  { <<"t", "x", "t">>, <<"m", "d">>, <<"j", "s">>, <<"t", "s">>,
    <<"t", "s", "x">>, <<"j", "s", "x">>, <<"j", "s", "o", "n">>,
    <<"y", "m", "l">>, <<"y", "a", "m", "l">>, <<"p", "y">>,
    <<"j", "a", "v", "a">>, <<"c", "s">>, <<"g", "o">>, <<"r", "s">>,
    <<"r", "b">>, <<"p", "h", "p">>, <<"s", "h">>, <<"b", "a", "t">>,
    <<"p", "s", "1">>, <<"c", "s", "v">>, <<"t", "s", "v">>,
    <<"c", "s", "s">>, <<"h", "t", "m", "l">>, <<"x", "m", "l">>,
    <<"s", "q", "l">> }

\* Mutant: any file with an extension passes.
isTextLike_anyExt(f) == Len(f.name) >= 2

\* utils.isTextLike: /\.(txt|md|...)$/i on the lower-cased name; the part
\* of the name before the last dot plays no role.
isTextLike(f) ==
  /\ Len(f.name) >= 2
  /\ toLowerCase(f.name[Len(f.name)]) \in TextExtensions

\* stat.birthtime of a file (never changes).
Birthtime(f) == 0

\* ------------------------------------------------------------- embeddings
\* What the embeddings endpoint returns to indexFile (before normalisation):
\* a vector, or an empty one.
RawVecs == { <<3, 4>>, << >> }

RECURSIVE SumSq(_)
SumSq(v) == IF v = << >> THEN 0 ELSE v[1] * v[1] + SumSq(Tail(v))

\* Math.sqrt on the perfect squares that occur.
Sqrt(n) == CHOOSE r \in 0..n : r * r = n

\* utils.normalize, results in fixed point (Unit = 1.0).
normalize(v) ==
  LET norm == IF Sqrt(SumSq(v)) = 0 THEN 1 ELSE Sqrt(SumSq(v))
  IN  [k \in DOMAIN v |-> (v[k] * Unit) \div norm]

\* ------------------------------------------------------------------ state
VARIABLES
  files,       \* table files, rows in rowid order
  vecReady,    \* SqliteStore.vectorTableReady
  vecDim,      \* dimension of table vec_files, 0 when the table does not exist
  vec,         \* table vec_files: id -> embedding
  ver,         \* per file: its content version, which is also its mtime
  solo,        \* the indexFile call a caller made directly, when one is in flight
  runPc,       \* position of the indexPath call
  listed,      \* indexPath: files
  force,       \* indexPath: options.force
  concurrency, \* indexPath: concurrency
  textFiles,   \* indexPath: textFiles
  toProcess,   \* indexPath: filesToProcess
  checked,     \* indexPath: the number of text files shouldProcessFile has answered for
  i,           \* indexPath: loop index i
  fstate,      \* per file: where the file is in the current indexPath call
  rtask,       \* per file: the indexFile call the current batch made for it
  sPc,         \* position of the search call
  query,       \* search: query
  topK,        \* search: topK
  minSimilarity, \* search: minSimilarity
  minScore,    \* search: minScore
  candidates,  \* search: candidates
  filteredCandidates, \* search: filteredCandidates
  content,     \* rerank: content, the text of the provider's response
  reranked,    \* search: reranked
  results,     \* search: the list returned
  embedCalls,  \* embeddings.create calls made by the search call
  rerankCalls, \* chat.completions.create calls made by the search call
  thrown,      \* the error the search call rejected with
  lastCall     \* the last call made on the SqliteStore directly and its outcome

storeVars == <<files, vecReady, vecDim, vec>>
runVars   == <<runPc, listed, force, concurrency, textFiles, toProcess,
               checked, i, fstate, rtask>>
searchVars == <<sPc, query, topK, minSimilarity, minScore, candidates,
                filteredCandidates, content, reranked, results, embedCalls,
                rerankCalls, thrown>>
vars      == <<files, vecReady, vecDim, vec, ver, solo, runPc, listed,
               force, concurrency, textFiles, toProcess, checked, i, fstate,
               rtask, sPc, query, topK, minSimilarity, minScore, candidates,
               filteredCandidates, content, reranked, results, embedCalls,
               rerankCalls, thrown, lastCall>>

\* "Not found" of getById / getByPath, and "no existing record".
Null == [id |-> 0]

\* No call has been made on the store directly.
NoCall == [op |-> "none"]

\* ------------------------------------------------------------ SqliteStore
\* SELECT * FROM files WHERE path = ?, first row: the index on path yields
\* the rows of one path in rowid order.
getByPath(p) ==
  LET hits == { k \in DOMAIN files : files[k].path = p }
  IN  IF hits = {} THEN Null
      ELSE files[CHOOSE k \in hits : \A j \in hits : k <= j]

getById(id) ==
  LET hits == { k \in DOMAIN files : files[k].id = id }
  IN  IF hits = {} THEN Null ELSE files[CHOOSE k \in hits : TRUE]

count == Len(files)

vectorCount == Cardinality(DOMAIN vec)

hasVectorIndex == vecDim # 0

\* The row written for a record (filename, size and mimetype follow from the
\* path and the content version and are left out).
RowOf(rec) ==
  [id |-> rec.id, path |-> rec.path, createdAt |-> rec.createdAt,
   modifiedAt |-> rec.modifiedAt, summary |-> rec.summary]

\* Mutant: a plain INSERT, a second row for an id that has one.
UpsertRow_append(tbl, row) == Append(tbl, row)

\* Mutant: INSERT OR REPLACE on the path, the rows of other ids of that path go.
UpsertRow_replacePath(tbl, row) ==
  Append(SelectSeq(tbl, LAMBDA old : old.path # row.path), row)

\* INSERT ... ON CONFLICT(id) DO UPDATE.
UpsertRow(tbl, row) ==
  IF \E k \in DOMAIN tbl : tbl[k].id = row.id
  THEN [k \in DOMAIN tbl |-> IF tbl[k].id = row.id THEN row ELSE tbl[k]]
  ELSE Append(tbl, row)

\* Removes the entry of one id from a table keyed by id.
DeleteVec(tbl, id) == [x \in (DOMAIN tbl) \ {id} |-> tbl[x]]

InsertVec(tbl, id, e) == [x \in (DOMAIN tbl) \cup {id} |-> IF x = id THEN e ELSE tbl[x]]

EmptyVec == [x \in {} |-> << >>]

validEmbedding(e) == Len(e) # 0 /\ \A k \in DOMAIN e : e[k] # NaN

\* Mutant: the vector table takes an embedding of any length.
fitsDimension_any(e, dim) == TRUE

\* embedding float[dim]: the vector table takes embeddings of its dimension.
fitsDimension(e, dim) == Len(e) = dim

\* JSON.stringify(embedding) writes a non-finite number as null, and
\* sqlite-vec reads a vector from a text of numbers only: the INSERT into
\* vec_files throws on the text of an embedding that holds an infinity.
readsAsVector(e) == \A k \in DOMAIN e : e[k] # Infinity

\* SqliteStore.upsert: the store after the call and whether it returned (ok)
\* or threw. The statements run one by one with no transaction around them:
\* a throw keeps what the earlier statements wrote.
upsert(rec) ==
  IF ~validEmbedding(rec.embedding)
  THEN [ok |-> FALSE, files |-> files, vecReady |-> vecReady,
        vecDim |-> vecDim, vec |-> vec]
  ELSE
    LET \* ensureVectorTable: DROP TABLE IF EXISTS, CREATE VIRTUAL TABLE
        dim1  == IF vecReady THEN vecDim ELSE Len(rec.embedding)
        vec1  == IF vecReady THEN vec ELSE EmptyVec
        files1 == UpsertRow(files, RowOf(rec))
        vec2  == DeleteVec(vec1, rec.id)
        fits  == fitsDimension(rec.embedding, dim1) /\ readsAsVector(rec.embedding)
    IN  [ok |-> fits, files |-> files1, vecReady |-> TRUE, vecDim |-> dim1,
         vec |-> IF fits THEN InsertVec(vec2, rec.id, rec.embedding) ELSE vec2]

\* ------------------------------------------------------ SemanticStore.indexFile
IdleTask == [pc |-> "idle", path |-> F_readme, id |-> 0, ver |-> 0, createdAt |-> 0]

\* Mutant: a new uuid for every call.
indexFileId_alwaysNew(existing, fresh) == fresh

\* const id = existingRecord?.id || uuidv4()
indexFileId(existing, fresh) == IF existing # Null THEN existing.id ELSE fresh

\* Mutant: the summarize call is skipped, the embed call is outstanding.
BeginTask_skipSummarize(rp, fresh) ==
  [pc |-> "embed", path |-> rp,
   id |-> indexFileId(getByPath(rp), fresh),
   ver |-> ver[rp],
   createdAt |-> IF getByPath(rp) # Null THEN getByPath(rp).createdAt ELSE Birthtime(rp)]

\* indexFile up to its first await: stat, getByPath, the id, and the text read
\* by summarizeFile; the summarize call is then outstanding.
BeginTask(rp, fresh) ==
  LET existing == getByPath(rp)
  IN  [pc |-> "summarize", path |-> rp,
       id |-> indexFileId(existing, fresh),
       ver |-> ver[rp],
       createdAt |-> IF existing # Null THEN existing.createdAt ELSE Birthtime(rp)]

\* uuidv4(): an id that no record and no indexFile call in flight has. An id
\* drawn by a call that failed was never stored and is drawn again.
uuidv4(soloNow, rtaskNow) ==
  LET used == { files[k].id : k \in DOMAIN files }
                \cup { soloNow.id }
                \cup { rtaskNow[f].id : f \in DOMAIN rtaskNow }
  IN  CHOOSE n \in 1..(Cardinality(used) + 1) :
        /\ n \notin used
        /\ \A m \in 1..(n - 1) : m \in used

\* The FileRecord indexFile builds once summary and embedding are there. The
\* summary is the provider's summary of the text read at the start: it is
\* named by the content version it was made from.
RecordOf(task, embedding) ==
  [id |-> task.id, path |-> task.path, createdAt |-> task.createdAt,
   modifiedAt |-> task.ver, summary |-> task.ver, embedding |-> embedding]

\* ------------------------------------------------ indexFile called directly
SoloBegin(sp) ==
  /\ solo.pc = "idle"
  /\ solo' = BeginTask(resolve(sp), uuidv4(solo, rtask))
  /\ UNCHANGED <<storeVars, ver, runVars>>
  /\ UNCHANGED <<searchVars, lastCall>>

SoloSummarizeReturn ==
  /\ solo.pc = "summarize"
  /\ solo' = [solo EXCEPT !.pc = "embed"]
  /\ UNCHANGED <<storeVars, ver, runVars>>
  /\ UNCHANGED <<searchVars, lastCall>>

\* summarizeFile or embedText throws: indexFile rejects to its caller.
SoloProviderFail ==
  /\ solo.pc \in {"summarize", "embed"}
  /\ solo' = IdleTask
  /\ UNCHANGED <<storeVars, ver, runVars>>
  /\ UNCHANGED <<searchVars, lastCall>>

\* The embedding arrives: normalize, build the record, db.upsert; indexFile
\* returns, or rejects when upsert throws.
SoloEmbedReturn(raw) ==
  /\ solo.pc = "embed"
  /\ LET r == upsert(RecordOf(solo, normalize(raw)))
     IN  /\ files' = r.files
         /\ vecReady' = r.vecReady
         /\ vecDim' = r.vecDim
         /\ vec' = r.vec
  /\ solo' = IdleTask
  /\ UNCHANGED <<ver, runVars>>
  /\ UNCHANGED <<searchVars, lastCall>>

\* ------------------------------------------------- SemanticStore.indexPath
Terminal == {"completed", "errored", "skipped"}

Processing == { f \in AllFiles : fstate[f] = "processing" }

\* Whether db.getByPath throws in shouldProcessFile. The reads of the store
\* do not fail here: the table is created by the constructor and the database
\* is open and used by this process alone.
GetByPathThrows == {FALSE}

\* Mutant: every file is processed.
shouldProcessFile_always(f, dbThrows) == TRUE

\* Mutant: also files whose mtime differs from the stored modifiedAt.
shouldProcessFile_mtime(f, dbThrows) ==
  \/ dbThrows
  \/ getByPath(resolve([file |-> f, rel |-> FALSE])) = Null
  \/ getByPath(resolve([file |-> f, rel |-> FALSE])).modifiedAt # ver[f]

\* shouldProcessFile: only files with no record for their resolved path; and
\* the file is processed when the store cannot be asked.
shouldProcessFile(f, dbThrows) ==
  IF dbThrows THEN TRUE
  ELSE getByPath(resolve([file |-> f, rel |-> FALSE])) = Null

\* options.concurrency || DEFAULT_CONFIG.DEFAULT_CONCURRENCY
effectiveConcurrency(opt) == IF opt = 0 THEN DEFAULT_CONCURRENCY ELSE opt

\* statSync(targetPath), the glob or the single resolved path, and the
\* isTextLike filter.
filesOf(target) ==
  IF target.kind = "dir" THEN Listing(target.dir) ELSE <<resolve(target.sp)>>

IndexPathBegin(target, forceOpt, concOpt) ==
  /\ runPc = "idle"
  /\ listed' = filesOf(target)
  /\ textFiles' = SelectSeq(filesOf(target), isTextLike)
  /\ force' = forceOpt
  /\ concurrency' = effectiveConcurrency(concOpt)
  /\ fstate' = [f \in AllFiles |->
                  IF f \in Range(SelectSeq(filesOf(target), isTextLike))
                  THEN "discovered" ELSE "none"]
  /\ runPc' = "filter"
  /\ toProcess' = << >>
  /\ checked' = 0
  /\ UNCHANGED <<storeVars, ver, solo, i, rtask>>
  /\ UNCHANGED <<searchVars, lastCall>>

\* One turn of for (const filePath of textFiles) without force:
\* await this.shouldProcessFile(filePath), and the push when it answers true.
\* The call is suspended once for each text file.
IndexPathCheck(dbThrows) ==
  /\ runPc = "filter"
  /\ ~force
  /\ checked < Len(textFiles)
  /\ toProcess' = IF shouldProcessFile(textFiles[checked + 1], dbThrows)
                  THEN Append(toProcess, textFiles[checked + 1])
                  ELSE toProcess
  /\ checked' = checked + 1
  /\ UNCHANGED <<storeVars, ver, solo, runPc, listed, force, concurrency,
                 textFiles, i, fstate, rtask>>
  /\ UNCHANGED <<searchVars, lastCall>>

\* filesToProcess is complete (with force it is textFiles): progress.start,
\* then progress.skipFile for the others.
IndexPathFilter ==
  /\ runPc = "filter"
  /\ force \/ checked = Len(textFiles)
  /\ LET chosen == IF force THEN textFiles ELSE toProcess
     IN  /\ toProcess' = chosen
         /\ fstate' = [f \in AllFiles |->
                         IF f \in Range(chosen) THEN "queued"
                         ELSE IF f \in Range(textFiles) THEN "skipped"
                         ELSE fstate[f]]
  /\ i' = 0
  /\ runPc' = "loop"
  /\ UNCHANGED <<storeVars, ver, solo, listed, force, concurrency,
                 textFiles, checked, rtask>>
  /\ UNCHANGED <<searchVars, lastCall>>

\* Mutant: the batch runs one file further than the loop steps.
batchAt_overlap(k) == Slice(toProcess, k, k + concurrency + 1)

\* const batch = filesToProcess.slice(i, i + concurrency)
batchAt(k) == Slice(toProcess, k, k + concurrency)

\* The indexFile call of a file whose statSync or readTextFile threw: its
\* promise is rejected, the callback's catch block has not run yet.
RejectedTask == [IdleTask EXCEPT !.pc = "rejected"]

\* batch.map(async ...) up to each callback's first await, file by file:
\* progress.startFile, then indexFile; `bad` are the files whose statSync or
\* readTextFile throws.
RECURSIVE StartAll(_, _, _, _)
StartAll(b, bad, k, acc) ==
  IF k > Len(b) THEN acc
  ELSE IF b[k] \in bad
       THEN StartAll(b, bad, k + 1, [acc EXCEPT ![b[k]] = RejectedTask])
  ELSE StartAll(b, bad, k + 1,
                [acc EXCEPT ![b[k]] = BeginTask(resolve([file |-> b[k], rel |-> FALSE]),
                                                uuidv4(solo, acc))])

StartBatch(bad) ==
  /\ runPc = "loop"
  /\ i < Len(toProcess)
  /\ bad \subseteq Range(batchAt(i))
  /\ LET b == batchAt(i)
     IN  /\ rtask' = StartAll(b, bad, 1, rtask)
         /\ fstate' = [f \in AllFiles |->
                         IF f \in Range(b) THEN "processing" ELSE fstate[f]]
  /\ runPc' = "await"
  /\ UNCHANGED <<storeVars, ver, solo, listed, force, concurrency, textFiles,
                 toProcess, checked, i>>
  /\ UNCHANGED <<searchVars, lastCall>>

\* Mutant: the failure of a file rejects the promise of indexPath.
afterFileError_raise(pcNow) == "raised"

\* catch (error) { progress.errorFile(...) }: the call goes on.
afterFileError(pcNow) == pcNow

\* The indexFile call of a file has returned from db.upsert: its promise is
\* resolved, the callback has not gone on to progress.completeFile yet.
ReturnedTask(task) == [task EXCEPT !.pc = "returned"]

\* The promise of the file's indexFile call is rejected: the callback's catch
\* block runs, progress.errorFile.
RunErrorFile(f) ==
  /\ fstate[f] = "processing"
  /\ rtask[f].pc = "rejected"
  /\ fstate' = [fstate EXCEPT ![f] = "errored"]
  /\ rtask' = [rtask EXCEPT ![f] = IdleTask]
  /\ runPc' = afterFileError(runPc)
  /\ UNCHANGED <<storeVars, ver, solo, listed, force, concurrency,
                 textFiles, toProcess, checked, i>>
  /\ UNCHANGED <<searchVars, lastCall>>

\* The promise of the file's indexFile call is resolved: the callback goes
\* on, progress.completeFile.
RunCompleteFile(f) ==
  /\ fstate[f] = "processing"
  /\ rtask[f].pc = "returned"
  /\ fstate' = [fstate EXCEPT ![f] = "completed"]
  /\ rtask' = [rtask EXCEPT ![f] = IdleTask]
  /\ UNCHANGED <<storeVars, ver, solo, runPc, listed, force, concurrency,
                 textFiles, toProcess, checked, i>>
  /\ UNCHANGED <<searchVars, lastCall>>

RunSummarizeReturn(f) ==
  /\ fstate[f] = "processing"
  /\ rtask[f].pc = "summarize"
  /\ rtask' = [rtask EXCEPT ![f].pc = "embed"]
  /\ UNCHANGED <<storeVars, ver, solo, runPc, listed, force, concurrency,
                 textFiles, toProcess, checked, i, fstate>>
  /\ UNCHANGED <<searchVars, lastCall>>

\* summarizeFile throws: indexFile rejects.
RunSummarizeFail(f) ==
  /\ fstate[f] = "processing"
  /\ rtask[f].pc = "summarize"
  /\ rtask' = [rtask EXCEPT ![f] = RejectedTask]
  /\ UNCHANGED <<storeVars, ver, solo, runPc, listed, force, concurrency,
                 textFiles, toProcess, checked, i, fstate>>
  /\ UNCHANGED <<searchVars, lastCall>>

\* embedText throws: indexFile rejects.
RunEmbedFail(f) ==
  /\ fstate[f] = "processing"
  /\ rtask[f].pc = "embed"
  /\ rtask' = [rtask EXCEPT ![f] = RejectedTask]
  /\ UNCHANGED <<storeVars, ver, solo, runPc, listed, force, concurrency,
                 textFiles, toProcess, checked, i, fstate>>
  /\ UNCHANGED <<searchVars, lastCall>>

\* The embedding arrives: normalize, build the record, db.upsert; indexFile
\* returns, or rejects when upsert throws.
RunEmbedReturn(f, raw) ==
  /\ fstate[f] = "processing"
  /\ rtask[f].pc = "embed"
  /\ LET r == upsert(RecordOf(rtask[f], normalize(raw)))
     IN  /\ files' = r.files
         /\ vecReady' = r.vecReady
         /\ vecDim' = r.vecDim
         /\ vec' = r.vec
         /\ rtask' = [rtask EXCEPT ![f] = IF r.ok THEN ReturnedTask(rtask[f])
                                                  ELSE RejectedTask]
  /\ UNCHANGED <<ver, solo, runPc, listed, force, concurrency, textFiles,
                 toProcess, checked, i, fstate>>
  /\ UNCHANGED <<searchVars, lastCall>>

\* Mutant: the promises of the batch are not awaited.
batchSettled_noAwait(b) == TRUE

\* await Promise.all(promises)
batchSettled(b) == \A f \in Range(b) : fstate[f] \in Terminal

\* The batch is over: i += concurrency. Below 0 every value of i behaves
\* alike with a negative concurrency: slice(i, i + concurrency) is empty and
\* i < filesToProcess.length holds, so i is kept at -MaxBackSteps from there on.
BatchDone ==
  /\ runPc = "await"
  /\ batchSettled(batchAt(i))
  /\ i' = Max(i + concurrency, -MaxBackSteps)
  /\ runPc' = "loop"
  /\ UNCHANGED <<storeVars, ver, solo, listed, force, concurrency,
                 textFiles, toProcess, checked, fstate, rtask>>
  /\ UNCHANGED <<searchVars, lastCall>>

\* The loop is left: progress.complete().
IndexPathComplete ==
  /\ runPc = "loop"
  /\ ~(i < Len(toProcess))
  /\ runPc' = "done"
  /\ UNCHANGED <<storeVars, ver, solo, listed, force, concurrency,
                 textFiles, toProcess, checked, i, fstate, rtask>>
  /\ UNCHANGED <<searchVars, lastCall>>

\* indexPath has returned its statistics; its locals are gone.
IndexPathReturn ==
  /\ runPc = "done"
  /\ runPc' = "idle"
  /\ listed' = << >>
  /\ force' = FALSE
  /\ concurrency' = DEFAULT_CONCURRENCY
  /\ textFiles' = << >>
  /\ toProcess' = << >>
  /\ checked' = 0
  /\ i' = 0
  /\ fstate' = [f \in AllFiles |-> "none"]
  /\ UNCHANGED <<storeVars, ver, solo, rtask>>
  /\ UNCHANGED <<searchVars, lastCall>>

\* ------------------------------------------------------------ environment
\* The file is edited: new content, new mtime.
Touches == ver[F_readme] + ver[F_logo] + ver[F_notes]

Touch(f) ==
  /\ Touches < MaxTouches
  /\ ver' = [ver EXCEPT ![f] = @ + 1]
  /\ UNCHANGED <<storeVars, solo, runVars>>
  /\ UNCHANGED <<searchVars, lastCall>>

\* ----------------------------------------------------- SemanticStore.search
\* No search call has been made.
SearchIdle ==
  /\ sPc = "idle"
  /\ query = "none"
  /\ topK = 0
  /\ minSimilarity = 0
  /\ minScore = 0
  /\ candidates = << >>
  /\ filteredCandidates = << >>
  /\ content = [kind |-> "none"]
  /\ reranked = << >>
  /\ results = << >>
  /\ embedCalls = 0
  /\ rerankCalls = 0
  /\ thrown = "none"

\* ---- inputs of a search call
Queries == {"q1", "q2"}

\* opts of search: all three options (the MCP server), topK alone (smoke.ts,
\* README), one threshold alone, or no options at all.
SearchOptions ==
  [topK : {1, 2}, minSimilarity : {1, 6}, minScore : {0, 60, 70}]
    \cup [minSimilarity : {1, 6}, minScore : {0, 60, 70}]
    \cup [topK : {1, 2}]
    \cup [minSimilarity : {1}]
    \cup [minScore : {0}]
    \cup { << >> }

\* What the embeddings endpoint answers for the text of a query (before
\* normalisation): the first query points where the stored embeddings point,
\* the second one the opposite way.
QueryEmbedding(q) == IF q = "q1" THEN <<3, 4>> ELSE <<-3, -4>>

RECURSIVE SumSqDiff(_, _)
SumSqDiff(a, b) ==
  IF a = << >> THEN 0
  ELSE (a[1] - b[1]) * (a[1] - b[1]) + SumSqDiff(Tail(a), Tail(b))

\* Math.sqrt, rounded to the nearest fixed-point value.
RoundedSqrt(n) ==
  IF n = 0 THEN 0
  ELSE CHOOSE r \in 1..n : r * r - r < n /\ n <= r * r + r

\* The distance sqlite-vec computes between the query vector and a stored
\* embedding of the same length: vec0 is created without a distance_metric,
\* so it is the L2 distance; in fixed point (Unit = 1.0).
Distance(q, e) == RoundedSqrt(SumSqDiff(q, e))

\* ---- the text of the rerank response
JNull == [type |-> "null"]

\* An {id, score} object; score NaN: the score is missing or a value that
\* is no number when read as one; score JsNull: the score is null; id 0: the
\* id is missing.
Entry(id, score) == [type |-> "object", id |-> id, score |-> score]

\* Elements of a response array: objects of the ids of the records, with a
\* score (one of them above the 0-100 the prompt asks for), without one or
\* with the score null; an object with an id no record has; an object
\* without id; null.
Entries ==
  { Entry(1, 40), Entry(1, 150), Entry(2, 70), Entry(2, NaN), Entry(3, JsNull),
    Entry(3, 95), Entry(9, 95), Entry(0, 70), JNull }

Arrays == UNION { [1..n -> Entries] : n \in 0..MaxRanking }

\* Response contents: none, text that is not JSON, JSON of a value that is
\* not an array, JSON of an array.
Contents ==
  { [kind |-> "empty"], [kind |-> "text"], [kind |-> "value"] }
    \cup { [kind |-> "array", items |-> a] : a \in Arrays }

\* ---- SqliteStore.retrieveByEmbedding
rowToRecord(row) ==
  [id |-> row.id,
   metadata |-> [id |-> row.id, path |-> row.path,
                 createdAt |-> row.createdAt, modifiedAt |-> row.modifiedAt],
   summary |-> row.summary]

\* ORDER BY distance: the orders the ids of vec_files may come in, rows at
\* the same distance in any order.
OrdersByDistance(q) ==
  { s \in [1..Cardinality(DOMAIN vec) -> DOMAIN vec] :
      /\ \A a, b \in DOMAIN s : a # b => s[a] # s[b]
      /\ \A a, b \in DOMAIN s :
           a < b => Distance(q, vec[s[a]]) <= Distance(q, vec[s[b]]) }

\* The loop over vecResults: a row with no record in files is left out.
RECURSIVE JoinRecords(_, _)
JoinRecords(q, ids) ==
  IF ids = << >> THEN << >>
  ELSE LET rest == JoinRecords(q, Tail(ids))
       IN  IF getById(ids[1]) = Null THEN rest
           ELSE <<[rec |-> rowToRecord(getById(ids[1])),
                   score |-> Unit - Distance(q, vec[ids[1]])]>> \o rest

\* retrieveByEmbedding, the outcomes it may have: it throws (ok = FALSE) when
\* table vec_files does not exist or the query vector is not of its
\* dimension; else it returns the first k rows of one of the orders.
retrieveByEmbedding(q, k) ==
  IF vecDim = 0 \/ Len(q) # vecDim
  THEN { [ok |-> FALSE, list |-> << >>] }
  ELSE { [ok |-> TRUE, list |-> JoinRecords(q, Slice(s, 0, k))] :
           s \in OrdersByDistance(q) }

\* ---- nlp.rerank
\* ToNumber of JavaScript on what stands in the place of a number: null is
\* 0, undefined is NaN.
ToNumber(v) ==
  CASE v = JsNull    -> 0
    [] v = Undefined -> NaN
    [] OTHER         -> v

\* comparefn(a, b) = b.score - a.score as Array.prototype.sort reads it: a NaN
\* result counts as 0.
SortCompare(a, b) ==
  IF ToNumber(a.score) = NaN \/ ToNumber(b.score) = NaN THEN 0
  ELSE ToNumber(b.score) - ToNumber(a.score)

RECURSIVE Reverse(_)
Reverse(s) == IF s = << >> THEN << >> ELSE Append(Reverse(Tail(s)), s[1])

\* Array.prototype.sort of V8 (arrays shorter than 64 elements): the length of
\* the run the array starts with, n elements of it counted so far.
RECURSIVE RunLength(_, _, _)
RunLength(a, n, descending) ==
  IF n = Len(a) THEN n
  ELSE LET order == SortCompare(a[n + 1], a[n])
       IN  IF (descending /\ order >= 0) \/ (~descending /\ order < 0)
           THEN n
           ELSE RunLength(a, n + 1, descending)

\* Binary search of the place of pivot among the first right elements of a.
RECURSIVE InsertionPoint(_, _, _, _)
InsertionPoint(a, pivot, left, right) ==
  IF left >= right THEN left
  ELSE LET mid == left + ((right - left) \div 2)
       IN  IF SortCompare(pivot, a[mid + 1]) < 0
           THEN InsertionPoint(a, pivot, left, mid)
           ELSE InsertionPoint(a, pivot, mid + 1, right)

\* Binary insertion sort: the first start elements of a are in order.
RECURSIVE BinaryInsertionSort(_, _)
BinaryInsertionSort(a, start) ==
  IF start >= Len(a) THEN a
  ELSE LET pivot == a[start + 1]
           at    == InsertionPoint(a, pivot, 0, start)
           moved == SubSeq(a, 1, at) \o <<pivot>> \o SubSeq(a, at + 1, start)
                      \o SubSeq(a, start + 2, Len(a))
       IN  BinaryInsertionSort(moved, start + 1)

\* parsed.sort((a, b) => b.score - a.score)
sort(a) ==
  IF Len(a) < 2 THEN a
  ELSE LET descending == SortCompare(a[2], a[1]) < 0
           run        == RunLength(a, 2, descending)
           made       == IF descending
                         THEN Reverse(SubSeq(a, 1, run)) \o SubSeq(a, run + 1, Len(a))
                         ELSE a
       IN  BinaryInsertionSort(made, run)

\* Mutant: the fallback gives every candidate the same score.
fallback_uniform(cands, k) ==
  LET kept == Slice(cands, 0, k)
  IN  [n \in DOMAIN kept |-> Entry(kept[n].id, Len(cands))]

\* The catch block of rerank: the first topK candidates, scored by position.
fallback(cands, k) ==
  LET kept == Slice(cands, 0, k)
  IN  [n \in DOMAIN kept |->
         Entry(kept[n].id, Len(cands) - (n - 1))]

\* Does the try block of rerank throw? JSON.parse on text that is not JSON;
\* parsed.sort on a value that is not an array; the comparator reading .score
\* of null, which sort calls once the array has two elements.
tryThrows(c) ==
  \/ c.kind \in {"text", "value"}
  \/ /\ c.kind = "array"
     /\ Len(c.items) >= 2
     /\ \E n \in DOMAIN c.items : c.items[n] = JNull

\* rerank once the chat completion has answered with content c.
rerank(c, cands, k) ==
  IF tryThrows(c) THEN fallback(cands, k)
  ELSE IF c.kind = "empty" THEN << >>
  ELSE Slice(sort(c.items), 0, k)

\* ---- SemanticStore.search
\* DEFAULT_CONFIG has no key DEFAULT_MIN_SIMILARITY and none DEFAULT_MIN_SCORE:
\* reading them gives undefined.
DEFAULT_MIN_SIMILARITY == Undefined
DEFAULT_MIN_SCORE == Undefined

\* opts?.topK ?? DEFAULT_CONFIG.DEFAULT_TOP_K
effectiveTopK(opts) ==
  IF "topK" \in DOMAIN opts THEN opts.topK ELSE DEFAULT_TOP_K

\* opts?.minSimilarity ?? DEFAULT_CONFIG.DEFAULT_MIN_SIMILARITY
effectiveMinSimilarity(opts) ==
  IF "minSimilarity" \in DOMAIN opts THEN opts.minSimilarity
  ELSE DEFAULT_MIN_SIMILARITY

\* opts?.minScore ?? DEFAULT_CONFIG.DEFAULT_MIN_SCORE
effectiveMinScore(opts) ==
  IF "minScore" \in DOMAIN opts THEN opts.minScore ELSE DEFAULT_MIN_SCORE

\* The >= of JavaScript: both operands read as numbers, false when one of
\* them is NaN.
GreaterOrEqual(a, b) ==
  /\ ToNumber(a) # NaN
  /\ ToNumber(b) # NaN
  /\ ToNumber(a) >= ToNumber(b)

\* Mutant: the similarity threshold is exclusive.
passesSimilarity_strict(c, min) ==
  ToNumber(c.score) # NaN /\ ToNumber(min) # NaN /\ ToNumber(c.score) > ToNumber(min)

\* c => c.score >= minSimilarity
passesSimilarity(c, min) == GreaterOrEqual(c.score, min)

\* Mutant: the score threshold is exclusive.
passesScore_strict(r, min) ==
  ToNumber(r.score) # NaN /\ ToNumber(min) # NaN /\ ToNumber(r.score) > ToNumber(min)

\* result => result.score >= minScore
passesScore(r, min) == GreaterOrEqual(r.score, min)

\* candidates.filter(c => c.score >= minSimilarity)
RECURSIVE filterBySimilarity(_, _)
filterBySimilarity(s, min) ==
  IF s = << >> THEN << >>
  ELSE IF passesSimilarity(s[1], min)
       THEN <<s[1]>> \o filterBySimilarity(Tail(s), min)
       ELSE filterBySimilarity(Tail(s), min)

\* results.filter(result => result.score >= minScore)
RECURSIVE filterByScore(_, _)
filterByScore(s, min) ==
  IF s = << >> THEN << >>
  ELSE IF passesScore(s[1], min)
       THEN <<s[1]>> \o filterByScore(Tail(s), min)
       ELSE filterByScore(Tail(s), min)

\* Mutant: an id no candidate has is given the first candidate.
byIdGet_anyCandidate(cands, id) ==
  IF \E n \in DOMAIN cands : cands[n].rec.id = id
  THEN cands[CHOOSE n \in DOMAIN cands : cands[n].rec.id = id]
  ELSE cands[1]

\* byId.get(r.id): the candidate of that id, Null when there is none.
byIdGet(cands, id) ==
  IF \E n \in DOMAIN cands : cands[n].rec.id = id
  THEN cands[CHOOSE n \in DOMAIN cands :
               /\ cands[n].rec.id = id
               /\ \A m \in DOMAIN cands : cands[m].rec.id = id => m <= n]
  ELSE Null

\* Mutant: the result repeats its final score as its similarity.
resultSimilarity_score(r, candidate) == r.score

\* The similarity a result carries.
resultSimilarity(r, candidate) == candidate.score

\* Is an entry of the ranking left out of the results?
dropped(candidate) == candidate = Null

\* reranked.map(...).filter(result => result !== null)
RECURSIVE Join(_, _)
Join(ranking, cands) ==
  IF ranking = << >> THEN << >>
  ELSE LET r         == ranking[1]
           candidate == byIdGet(cands, r.id)
           rest      == Join(Tail(ranking), cands)
       IN  IF dropped(candidate) THEN rest
           ELSE <<[id |-> r.id, score |-> r.score,
                   cosineSimilarity |-> resultSimilarity(r, candidate),
                   metadata |-> candidate.rec.metadata,
                   summary |-> candidate.rec.summary]>> \o rest

\* r.id on an element that is null throws a TypeError.
joinThrows(ranking) == \E n \in DOMAIN ranking : ranking[n] = JNull

\* {id, summary} of each candidate, as handed to rerank.
rerankInput(cands) ==
  [n \in DOMAIN cands |-> [id |-> cands[n].rec.id, summary |-> cands[n].rec.summary]]

indexVars == <<files, vecReady, vecDim, vec, ver, solo, runPc, listed, force,
               concurrency, textFiles, toProcess, checked, i, fstate, rtask>>

\* search up to its first await: the options, then embedText is outstanding.
SearchBegin(q, opts) ==
  /\ sPc = "idle"
  /\ sPc' = "embed"
  /\ query' = q
  /\ topK' = effectiveTopK(opts)
  /\ minSimilarity' = effectiveMinSimilarity(opts)
  /\ minScore' = effectiveMinScore(opts)
  /\ embedCalls' = embedCalls + 1
  /\ UNCHANGED <<candidates, filteredCandidates, content, reranked, results,
                 rerankCalls, thrown, indexVars, lastCall>>

\* Mutant: a failed query embedding gives an empty result list.
afterEmbedError_empty(pcNow) == "returned"

\* search has no catch: a failed embedText rejects the call.
afterEmbedError(pcNow) == "raised"

\* embedText throws: search rejects with that error.
SearchEmbedFail ==
  /\ sPc = "embed"
  /\ sPc' = afterEmbedError(sPc)
  /\ thrown' = "embedding"
  /\ UNCHANGED <<query, topK, minSimilarity, minScore, candidates,
                 filteredCandidates, content, reranked, results, embedCalls,
                 rerankCalls, indexVars, lastCall>>

\* The query embedding arrives: retrieveByEmbedding, the similarity filter,
\* return [] when nothing is left, else the rerank call is outstanding.
SearchEmbedReturn ==
  /\ sPc = "embed"
  /\ \E found \in retrieveByEmbedding(
                    normalize(QueryEmbedding(query)),
                    Max(topK * CANDIDATE_MULTIPLIER, MIN_CANDIDATES)) :
     LET kept == filterBySimilarity(found.list, minSimilarity)
     IN  IF ~found.ok
         THEN /\ sPc' = "raised"
              /\ thrown' = "SqliteError"
              /\ UNCHANGED <<candidates, filteredCandidates, rerankCalls>>
         ELSE /\ candidates' = found.list
              /\ filteredCandidates' = kept
              /\ thrown' = "none"
              /\ IF kept = << >>
                 THEN sPc' = "returned" /\ UNCHANGED rerankCalls
                 ELSE sPc' = "rerank" /\ rerankCalls' = rerankCalls + 1
  /\ UNCHANGED <<query, topK, minSimilarity, minScore, content, reranked,
                 results, embedCalls, indexVars, lastCall>>

\* chat.completions.create throws: rerank and search reject with that error.
SearchRerankFail ==
  /\ sPc = "rerank"
  /\ sPc' = "raised"
  /\ thrown' = "rerank"
  /\ UNCHANGED <<query, topK, minSimilarity, minScore, candidates,
                 filteredCandidates, content, reranked, results, embedCalls,
                 rerankCalls, indexVars, lastCall>>

\* The chat completion answers with content c: rerank returns its ranking,
\* search joins it with the candidates and applies the score threshold.
SearchRerankReturn(c) ==
  /\ sPc = "rerank"
  /\ content' = c
  /\ LET ranking == rerank(c, rerankInput(filteredCandidates), topK)
     IN  /\ reranked' = ranking
         /\ IF joinThrows(ranking)
            THEN sPc' = "raised" /\ thrown' = "TypeError" /\ UNCHANGED results
            ELSE /\ sPc' = "returned"
                 /\ thrown' = "none"
                 /\ results' = filterByScore(Join(ranking, filteredCandidates),
                                             minScore)
  /\ UNCHANGED <<query, topK, minSimilarity, minScore, candidates,
                 filteredCandidates, embedCalls, rerankCalls, indexVars, lastCall>>

\* ---- the stores a search is made on
\* Three files indexed, the first one re-indexed after an edit.
IndexedRows ==
  << [id |-> 1, path |-> F_readme, createdAt |-> 0, modifiedAt |-> 1, summary |-> 1],
     [id |-> 2, path |-> F_notes, createdAt |-> 0, modifiedAt |-> 0, summary |-> 0],
     [id |-> 3, path |-> F_logo, createdAt |-> 0, modifiedAt |-> 0, summary |-> 0] >>

\* Their embeddings, as embedText normalised them.
IndexedVecs ==
  [x \in 1..3 |-> CASE x = 1 -> normalize(<<0, 5>>)
                    [] x = 2 -> normalize(<<3, 4>>)
                    [] OTHER -> normalize(<<5, 0>>)]

SearchInit ==
  /\ \/ /\ files = << >>
        /\ vecReady = FALSE
        /\ vecDim = 0
        /\ vec = EmptyVec
        /\ ver = [f \in AllFiles |-> 0]
     \/ /\ files = IndexedRows
        /\ vecReady = TRUE
        /\ vecDim = 2
        /\ vec = IndexedVecs
        /\ ver = [f \in AllFiles |-> IF f = F_readme THEN 1 ELSE 0]
  /\ solo = IdleTask
  /\ runPc = "idle"
  /\ listed = << >>
  /\ force = FALSE
  /\ concurrency = DEFAULT_CONCURRENCY
  /\ textFiles = << >>
  /\ toProcess = << >>
  /\ checked = 0
  /\ i = 0
  /\ fstate = [f \in AllFiles |-> "none"]
  /\ rtask = [f \in AllFiles |-> IdleTask]
  /\ SearchIdle
  /\ lastCall = NoCall

SearchNext ==
  \/ \E q \in Queries, opts \in SearchOptions : SearchBegin(q, opts)
  \/ SearchEmbedFail
  \/ SearchEmbedReturn
  \/ SearchRerankFail
  \/ \E c \in Contents : SearchRerankReturn(c)

SearchSpec == SearchInit /\ [][SearchNext]_vars

\* ------------------------------------------- calls on the SqliteStore itself
\* Embeddings handed to upsert: of two components, of one, empty, holding a
\* NaN, holding an infinity.
StoreVecs == { <<6, 8>>, <<10>>, << >>, <<NaN, 0>>, <<Infinity, 0>> }

\* The file a record of this id is of.
PathOf(id) == IF id = 1 THEN F_readme ELSE F_notes

\* FileRecords handed to upsert: of two ids, each in two versions.
StoreRecords ==
  { [id |-> id, path |-> PathOf(id), createdAt |-> 0, modifiedAt |-> v,
     summary |-> v, embedding |-> e] : id \in {1, 2}, v \in {0, 1}, e \in StoreVecs }

RetrieveLimits == {1, 2, 3}

\* Query vectors handed to retrieveByEmbedding: a stored embedding, another
\* vector of two components, one of one component.
StoreQueries == { <<6, 8>>, <<10, 0>>, <<10>> }

\* db.upsert(rec)
StoreUpsert(rec) ==
  /\ LET r == upsert(rec)
     IN  /\ files' = r.files
         /\ vecReady' = r.vecReady
         /\ vecDim' = r.vecDim
         /\ vec' = r.vec
         /\ lastCall' = [op |-> "upsert", rec |-> rec, ok |-> r.ok]
  /\ UNCHANGED <<ver, solo, runVars, searchVars>>

\* The store is closed and a new SqliteStore is made on the same file.
StoreReopen ==
  /\ vecReady' = FALSE
  /\ lastCall' = [op |-> "reopen"]
  /\ UNCHANGED <<files, vecDim, vec, ver, solo, runVars, searchVars>>

\* The database file is removed (the reset command of the CLI) and a new
\* SqliteStore is made on its path: the constructor creates table files anew.
StoreReset ==
  /\ files' = << >>
  /\ vecReady' = FALSE
  /\ vecDim' = 0
  /\ vec' = EmptyVec
  /\ lastCall' = [op |-> "reset"]
  /\ UNCHANGED <<ver, solo, runVars, searchVars>>

\* db.retrieveByEmbedding(q, limit)
StoreRetrieve(q, limit) ==
  /\ \E r \in retrieveByEmbedding(q, limit) :
       lastCall' = [op |-> "retrieve", query |-> q, limit |-> limit,
                    ok |-> r.ok, list |-> r.list]
  /\ UNCHANGED <<storeVars, ver, solo, runVars, searchVars>>

StoreNext ==
  \/ \E rec \in StoreRecords : StoreUpsert(rec)
  \/ StoreReopen
  \/ StoreReset
  \/ \E q \in StoreQueries, limit \in RetrieveLimits : StoreRetrieve(q, limit)

\* ------------------------------------------------------------------ Init
Init ==
  /\ files = << >>
  /\ vecReady = FALSE
  /\ vecDim = 0
  /\ vec = EmptyVec
  /\ ver = [f \in AllFiles |-> 0]
  /\ solo = IdleTask
  /\ runPc = "idle"
  /\ listed = << >>
  /\ force = FALSE
  /\ concurrency = DEFAULT_CONCURRENCY
  /\ textFiles = << >>
  /\ toProcess = << >>
  /\ checked = 0
  /\ i = 0
  /\ fstate = [f \in AllFiles |-> "none"]
  /\ rtask = [f \in AllFiles |-> IdleTask]
  /\ SearchIdle
  /\ lastCall = NoCall

Next ==
  \/ \E sp \in SoloPaths : SoloBegin(sp)
  \/ SoloSummarizeReturn
  \/ SoloProviderFail
  \/ \E raw \in RawVecs : SoloEmbedReturn(raw)
  \/ \E t \in Targets, fo \in BOOLEAN, co \in ConcurrencyOptions : IndexPathBegin(t, fo, co)
  \/ \E dbThrows \in GetByPathThrows : IndexPathCheck(dbThrows)
  \/ IndexPathFilter
  \/ \E bad \in SUBSET AllFiles : StartBatch(bad)
  \/ \E f \in AllFiles : RunErrorFile(f)
  \/ \E f \in AllFiles : RunCompleteFile(f)
  \/ \E f \in AllFiles : RunSummarizeReturn(f)
  \/ \E f \in AllFiles : RunSummarizeFail(f)
  \/ \E f \in AllFiles : RunEmbedFail(f)
  \/ \E f \in AllFiles, raw \in RawVecs : RunEmbedReturn(f, raw)
  \/ BatchDone
  \/ IndexPathComplete
  \/ IndexPathReturn
  \/ \E f \in Edited : Touch(f)

Spec == Init /\ [][Next]_vars

\* The steps of the event loop on behalf of the indexPath call.
RunStep ==
  \/ \E dbThrows \in GetByPathThrows : IndexPathCheck(dbThrows)
  \/ IndexPathFilter
  \/ \E bad \in SUBSET AllFiles : StartBatch(bad)
  \/ BatchDone
  \/ IndexPathComplete

\* The call indexFile made for f returns or fails.
ProviderStep(f) ==
  \/ RunErrorFile(f)
  \/ RunCompleteFile(f)
  \/ RunSummarizeReturn(f)
  \/ RunSummarizeFail(f)
  \/ RunEmbedFail(f)
  \/ \E raw \in RawVecs : RunEmbedReturn(f, raw)

\* The event loop runs what is ready, and every provider call made for a
\* file eventually returns or fails.
FairSpec ==
  /\ Spec
  /\ WF_vars(RunStep)
  /\ \A f \in AllFiles : WF_vars(ProviderStep(f))

StoreSpec == Init /\ [][StoreNext]_vars

\* ------------------------------------------------------------------ claims
HasRecord(p) == \E k \in DOMAIN files : files[k].path = p

\* A step in which the filter of indexPath is over: the text files are
\* queued or skipped.
FilterStep == runPc = "filter" /\ runPc' = "loop"

\* A step in which shouldProcessFile answers for the next text file.
CheckStep == runPc = "filter" /\ checked' = checked + 1

\* The text file shouldProcessFile answers for in a CheckStep.
CheckedFile == textFiles[checked + 1]

\* C1: Identity preservation. Once a path has a record, the record found for
\* the path keeps its id through every step; every indexFile call begun for
\* the path (directly or by indexPath, forced or not) takes that id and draws
\* no new one; and when such a call returns, the record of that id carries
\* the regenerated summary, modification time and embedding.
C1_IdentityPreserved ==
  [][\A p \in AllFiles :
       /\ HasRecord(p) =>
            /\ HasRecord(p)'
            /\ getByPath(p)'.id = getByPath(p).id
            /\ (solo.pc = "idle" /\ solo'.pc = "summarize" /\ solo'.path = p)
                 => solo'.id = getByPath(p).id
            /\ (fstate[p] # "processing" /\ rtask'[p].pc = "summarize")
                 => rtask'[p].id = getByPath(p).id
       /\ (rtask[p].pc = "embed" /\ rtask'[p].pc = "returned") =>
            /\ \E k \in DOMAIN files' :
                  /\ files'[k].id = rtask[p].id
                  /\ files'[k].path = p
                  /\ files'[k].summary = rtask[p].ver
                  /\ files'[k].modifiedAt = rtask[p].ver
            /\ rtask[p].id \in DOMAIN vec'
     ]_vars

\* C1 witness: a forced indexPath is re-indexing a file that was edited after
\* its record was stored, under the id of that record.
C1_Witness ==
  /\ force
  /\ fstate[F_readme] = "processing"
  /\ HasRecord(F_readme)
  /\ rtask[F_readme].id = getByPath(F_readme).id
  /\ rtask[F_readme].ver # getByPath(F_readme).modifiedAt

\* C2: At most one record per distinct absolute path, in every reachable
\* state, also when two indexing tasks for the same path overlap.
C2_OneRecordPerPath ==
  \A j, k \in DOMAIN files : files[j].path = files[k].path => j = k

\* C3: Idempotence of non-forced indexing. The filter of a non-forced
\* indexPath puts no text file that has a record among the files to process
\* (and records are never removed, C26), so with a record for every text
\* file nothing is queued; and an indexPath call with nothing queued starts
\* no indexFile call (so no summarize, no embed, no upsert) and none of its
\* steps changes the store.
C3_NonForcedIdempotent ==
  /\ [][(CheckStep /\ HasRecord(CheckedFile)) => toProcess' = toProcess]_vars
  /\ [][(FilterStep /\ ~force) => toProcess' = toProcess]_vars
  /\ [][(runPc \in {"filter", "loop", "await", "done"} /\ runPc' # "idle"
           /\ toProcess' = << >> /\ runVars' # runVars)
          => /\ storeVars' = storeVars
             /\ \A f \in AllFiles : /\ fstate'[f] \in {"none", "discovered", "skipped"}
                                    /\ rtask'[f] = IdleTask]_vars

\* C3 witness: a non-forced indexPath over two indexed files has returned
\* with both skipped.
C3_Witness ==
  /\ runPc = "done"
  /\ ~force
  /\ Len(textFiles) = 2
  /\ toProcess = << >>
  /\ \A f \in Range(textFiles) : fstate[f] = "skipped" /\ HasRecord(f)

\* C4: Failure isolation. The failure of a file being processed makes that
\* file errored and nothing else: indexPath goes on where it was, the other
\* files and their indexFile calls are untouched; indexPath never ends by
\* raising; when it is done every queued file is completed or errored, and
\* every completed file has its record in the store.
C4_FailureIsolated ==
  /\ [][\A f \in AllFiles :
          (fstate[f] = "processing" /\ fstate'[f] = "errored") =>
             /\ runPc' = runPc
             /\ \A g \in AllFiles \ {f} : fstate'[g] = fstate[g] /\ rtask'[g] = rtask[g]
       ]_vars
  /\ [](runPc # "raised")
  /\ [](runPc = "done" =>
          \A f \in Range(toProcess) : fstate[f] \in {"completed", "errored"})
  /\ [](\A f \in AllFiles : fstate[f] = "completed" => HasRecord(f))

\* C4 witness: indexPath is done, one file of a two-file batch failed, the
\* other one completed and is stored.
C4_Witness ==
  /\ runPc = "done"
  /\ concurrency = DEFAULT_CONCURRENCY
  /\ fstate[F_readme] = "errored"
  /\ fstate[F_notes] = "completed"
  /\ HasRecord(F_notes)

\* C5: Batch sequencing. Whenever a file enters processing, no file that
\* entered processing in an earlier step is still processing.
C5_BatchesSequential ==
  [][\A f \in AllFiles :
       (fstate[f] # "processing" /\ fstate'[f] = "processing")
         => \A g \in AllFiles : fstate[g] # "processing"]_vars

\* C5 witness: the file of the second batch is processing after the file of
\* the first batch completed or failed.
C5_Witness ==
  /\ concurrency = 1
  /\ i = 1
  /\ fstate[F_notes] = "processing"
  /\ fstate[F_readme] \in {"completed", "errored"}

\* C6: Bounded concurrency. The number of files in the processing state is
\* at most the batch width (the concurrency of the call).
C6_BoundedConcurrency == Cardinality(Processing) <= concurrency

\* C7: Per-file state machine. Within one indexPath call a file moves only
\* discovered -> skipped, or discovered -> queued -> processing -> completed
\* or errored; terminal states are left only when the call has returned; and
\* when indexPath is done every discovered text file is in a terminal state.
C7_Allowed ==
  { <<"none", "discovered">>, <<"discovered", "skipped">>, <<"discovered", "queued">>,
    <<"queued", "processing">>, <<"processing", "completed">>,
    <<"processing", "errored">> }

C7_FileStateMachine ==
  /\ [][\A f \in AllFiles :
          \/ fstate'[f] = fstate[f]
          \/ <<fstate[f], fstate'[f]>> \in C7_Allowed
          \/ runPc = "done" /\ runPc' = "idle" /\ fstate'[f] = "none"]_vars
  /\ [](runPc = "done" => \A f \in Range(textFiles) : fstate[f] \in Terminal)

\* C7 witness: indexPath is done with one file skipped and one completed.
C7_Witness ==
  /\ runPc = "done"
  /\ fstate[F_readme] = "skipped"
  /\ fstate[F_notes] = "completed"

\* C8: Change detection. The filter of a non-forced indexPath asks the store
\* once for each text file: the file is left out exactly when a record with
\* its absolute path exists at that moment, and put among the files to
\* process otherwise; at the end the files left out are skipped and the
\* others queued. The filter of a forced indexPath queues every text file.
C8_ChangeDetection ==
  /\ [][CheckStep =>
         /\ ~force
         /\ HasRecord(CheckedFile) => toProcess' = toProcess
         /\ ~HasRecord(CheckedFile) => toProcess' = Append(toProcess, CheckedFile)]_vars
  /\ [][FilterStep =>
         \A f \in Range(textFiles) :
           IF force THEN fstate'[f] = "queued"
           ELSE /\ checked = Len(textFiles)
                /\ fstate'[f] = "skipped" <=> f \notin Range(toProcess)
                /\ fstate'[f] = "queued" <=> f \in Range(toProcess)]_vars

\* C8 witness: a non-forced indexPath has skipped the indexed file, although
\* it was edited after its record was stored, and queued the other one.
C8_Witness ==
  /\ runPc = "loop"
  /\ i = 0
  /\ ~force
  /\ fstate[F_readme] = "skipped"
  /\ getByPath(F_readme).modifiedAt # ver[F_readme]
  /\ fstate[F_notes] = "queued"

\* C9: Changed files are refreshed. When the filter of a non-forced indexPath
\* asks for an indexed text file whose modification time differs from the
\* stored modifiedAt, it puts the file among the files to process.
C9_ChangedFilesRefreshed ==
  [][(CheckStep /\ HasRecord(CheckedFile)
        /\ getByPath(CheckedFile).modifiedAt # ver[CheckedFile])
       => toProcess' = Append(toProcess, CheckedFile)]_vars

\* C10: Extension filter. The .png file is never discovered, queued or
\* processed by indexPath and gets no record; every listed file with an
\* allow-listed extension is discovered; and an indexPath over the directory
\* holding one .md and one .png file that completes processes the .md file
\* alone. The named extensions are classified as by the unit test.
C10_Named(ext) == [dir |-> "docs", name |-> <<"file", ext>>]

C10_ExtensionFilter ==
  /\ \A ext \in { <<"p", "n", "g">>, <<"m", "p", "4">>, <<"z", "i", "p">>,
                  <<"e", "x", "e">> } : ~isTextLike(C10_Named(ext))
  /\ \A ext \in { <<"m", "d">>, <<"t", "x", "t">>, <<"j", "s">>,
                  <<"j", "s", "o", "n">>, <<"p", "y">>, <<"c", "s", "s">> } :
       isTextLike(C10_Named(ext))
  /\ fstate[F_logo] = "none"
  /\ rtask[F_logo] = IdleTask
  /\ ~HasRecord(F_logo)
  /\ runPc # "idle" =>
       \A f \in Range(listed) : f.name[2] \in { <<"m", "d">>, <<"T", "X", "T">> } => fstate[f] # "none"
  /\ (runPc = "done" /\ listed = Listing("docs") /\ fstate[F_readme] = "completed")
       => { f \in AllFiles : fstate[f] # "none" } = {F_readme}

\* C10 witness: indexPath over the directory with the .md and the .png file
\* is done and the store holds one record, that of the .md file.
C10_Witness ==
  /\ runPc = "done"
  /\ listed = Listing("docs")
  /\ fstate[F_readme] = "completed"
  /\ Len(files) = 1
  /\ files[1].path = F_readme

\* ------------------------------------------------------- claims on search
\* <<id, score>> of each element of a ranking or of a result list.
IdScores(s) == [n \in DOMAIN s |-> <<s[n].id, s[n].score>>]

\* The ids of the candidates that passed the similarity threshold.
FilteredIds == { filteredCandidates[n].rec.id : n \in DOMAIN filteredCandidates }

\* The response was a JSON array of objects.
ObjectArray ==
  /\ content.kind = "array"
  /\ \A n \in DOMAIN content.items : content.items[n] # JNull

\* C11: Result ordering. Whatever the rerank provider answered, the results a
\* search returns are in descending order of their final score.
C11_ResultsDescending ==
  sPc = "returned" =>
    \A n \in 1..(Len(results) - 1) : results[n].score >= results[n + 1].score

\* C12: Similarity floor. The candidates handed to rerank are exactly the
\* retrieved candidates whose similarity is >= minSimilarity (equality
\* included; none when no minSimilarity is there to compare with), every
\* result has such a similarity, and of the similarities 1.0, 0.4, 0.1 with
\* minSimilarity 0.6 only the first candidate is handed on.
C12_SimilarityFloor ==
  /\ filteredCandidates =
       SelectSeq(candidates,
                 LAMBDA c : minSimilarity # Undefined /\ c.score >= minSimilarity)
  /\ \A n \in DOMAIN results :
       minSimilarity # Undefined /\ results[n].cosineSimilarity >= minSimilarity
  /\ (/\ sPc \in {"rerank", "returned"}
      /\ [n \in DOMAIN candidates |-> candidates[n].score] = <<10, 4, 1>>
      /\ minSimilarity = 6)
       => [n \in DOMAIN filteredCandidates |-> filteredCandidates[n].score] = <<10>>

C12_Witness ==
  /\ sPc = "returned"
  /\ minSimilarity = 6
  /\ [n \in DOMAIN candidates |-> candidates[n].score] = <<10, 4, 1>>
  /\ Len(results) = 1

\* C13: When no stored embedding has a similarity >= minSimilarity to the
\* query (an empty store included), a search whose query embedding arrived
\* returns an empty list, raises nothing and makes no rerank call.
C13_EmptyWithoutRerank ==
  (/\ sPc \in {"rerank", "returned", "raised"}
   /\ thrown # "embedding"
   /\ \A id \in DOMAIN vec :
        \/ minSimilarity = Undefined
        \/ Unit - Distance(normalize(QueryEmbedding(query)), vec[id]) < minSimilarity)
    => (sPc = "returned" /\ results = << >> /\ rerankCalls = 0)

\* C14: Score floor. The results are exactly the entries of the truncated
\* ranking that name a candidate and whose score, read as a number, is >=
\* minScore (equality included; none when no minScore is there to compare
\* with), in the order of the ranking; the scores 95, 70, 40 of three
\* candidates with minScore 60 give exactly 95, 70.
C14_ScoreFloor ==
  sPc = "returned" =>
    /\ IdScores(results) =
         IdScores(SelectSeq(reranked,
                    LAMBDA r : /\ r.id \in FilteredIds
                               /\ minScore # Undefined
                               /\ ToNumber(r.score) # NaN
                               /\ ToNumber(r.score) >= minScore))
    /\ (/\ content = [kind |-> "array",
                      items |-> <<Entry(3, 95), Entry(2, 70), Entry(1, 40)>>]
        /\ Len(filteredCandidates) = 3
        /\ topK >= 3
        /\ minScore = 60)
         => IdScores(results) = << <<3, 95>>, <<2, 70>> >>

C14_Witness ==
  /\ sPc = "returned"
  /\ minScore = 70
  /\ \E n \in DOMAIN results : results[n].score = 70
  /\ \E n \in DOMAIN reranked : reranked[n].score = 40 /\ reranked[n].id \in FilteredIds

\* C15: Defensive join. Every result has the id of a candidate that passed
\* the similarity threshold, and a ranking of objects, whatever their ids,
\* never makes the search raise.
C15_DefensiveJoin ==
  /\ \A n \in DOMAIN results : results[n].id \in FilteredIds
  /\ ObjectArray => (sPc = "returned" /\ thrown = "none")

C15_Witness ==
  /\ sPc = "returned"
  /\ ObjectArray
  /\ \E n \in DOMAIN reranked : reranked[n].id \notin FilteredIds
  /\ results # << >>

\* C16: topK bound. For a ranking of objects, at most topK results are
\* returned, and each of them is among the topK highest-scored entries of
\* the provider's ranking: fewer than topK entries score higher than it.
C16_TopKBound ==
  (sPc = "returned" /\ ObjectArray) =>
    /\ Len(results) <= topK
    /\ \A n \in DOMAIN results :
         Cardinality({ m \in DOMAIN content.items :
                         /\ content.items[m].score # NaN
                         /\ content.items[m].score > results[n].score }) < topK

\* C17: Fallback. When the response is not JSON, or JSON of something that is
\* not an array, the search does not raise: the ranking is the first topK
\* candidates in their order with strictly decreasing scores, and the results
\* are the entries of that ranking at or above minScore.
C17_RerankFallback ==
  content.kind \in {"text", "value"} =>
    /\ sPc = "returned"
    /\ thrown = "none"
    /\ Len(reranked) = Min(topK, Len(filteredCandidates))
    /\ \A n \in DOMAIN reranked : reranked[n].id = filteredCandidates[n].rec.id
    /\ \A n \in 1..(Len(reranked) - 1) : reranked[n].score > reranked[n + 1].score
    /\ IdScores(results) =
         IdScores(SelectSeq(reranked,
                    LAMBDA r : minScore # Undefined /\ r.score >= minScore))

C17_Witness ==
  /\ content.kind = "text"
  /\ sPc = "returned"
  /\ Len(filteredCandidates) = 3
  /\ Len(reranked) = 2
  /\ Len(results) = 2

\* C18: Whatever the content of the response of a rerank call that answered,
\* the search returns a result list and raises nothing.
C18_RerankOutputNeverAborts ==
  content.kind # "none" => (sPc = "returned" /\ thrown = "none")

\* C19: A failed query embedding call or a failed rerank call rejects the
\* search with that error: no result list is returned, and neither call is
\* made a second time.
C19_QueryErrorsPropagate ==
  /\ thrown \in {"embedding", "rerank"} => (sPc = "raised" /\ results = << >>)
  /\ thrown = "embedding" => rerankCalls = 0
  /\ embedCalls <= 1
  /\ rerankCalls <= 1

C19_Witness ==
  /\ sPc = "raised"
  /\ thrown = "rerank"
  /\ filteredCandidates # << >>
  /\ embedCalls = 1
  /\ rerankCalls = 1

\* C20: Every result carries the similarity retrieveByEmbedding computed for
\* the record of its id and this query, and the metadata and the summary of
\* that record.
C20_ResultCarriesCandidate ==
  sPc = "returned" =>
    \A n \in DOMAIN results :
      /\ \E m \in DOMAIN candidates : candidates[m].rec.id = results[n].id
      /\ results[n].cosineSimilarity =
           Unit - Distance(normalize(QueryEmbedding(query)), vec[results[n].id])
      /\ results[n].metadata.path = getById(results[n].id).path
      /\ results[n].metadata.modifiedAt = getById(results[n].id).modifiedAt
      /\ results[n].metadata.createdAt = getById(results[n].id).createdAt
      /\ results[n].metadata.id = results[n].id
      /\ results[n].summary = getById(results[n].id).summary

C20_Witness ==
  /\ sPc = "returned"
  /\ \E n \in DOMAIN results :
       /\ results[n].id = 1
       /\ results[n].score = 40
       /\ results[n].cosineSimilarity = 4
       /\ results[n].summary = 1

\* C21: Score range. Every result a search returns has a final score within
\* 0..100, with the provider's ranking and with the fallback ranking.
C21_ScoreRange ==
  sPc = "returned" =>
    \A n \in DOMAIN results : results[n].score >= 0 /\ results[n].score <= 100

\* ---------------------------------------------- claims on the SqliteStore
\* The ids of the rows of table files.
FileIds == { files[k].id : k \in DOMAIN files }

\* The embedding is one the validation of the claim rejects: empty, or
\* holding a NaN or an infinity.
NonFinite(e) == Len(e) = 0 \/ \E k \in DOMAIN e : e[k] \in {NaN, Infinity}

\* C22: upsert inserts or replaces by id. After an upsert(r) that returned,
\* the one row of r.id holds r's metadata and summary, count() is one more
\* when r.id had no row and the same when it had one, and the rows of the
\* other ids are as before.
C22_UpsertInsertsOrReplaces ==
  [][(lastCall'.op = "upsert" /\ lastCall'.ok) =>
       LET r == lastCall'.rec
       IN  /\ \E k \in DOMAIN files' : files'[k] = RowOf(r)
           /\ Cardinality({ k \in DOMAIN files' : files'[k].id = r.id }) = 1
           /\ Len(files') = IF r.id \in FileIds THEN Len(files) ELSE Len(files) + 1
           /\ \A k \in DOMAIN files :
                files[k].id # r.id =>
                  \E j \in DOMAIN files' : files'[j] = files[k]]_vars

C22_Witness ==
  /\ lastCall.op = "upsert"
  /\ lastCall.ok
  /\ lastCall.rec.summary = 1
  /\ Len(files) = 2
  /\ files[1] = RowOf(lastCall.rec)
  /\ files[2].id # lastCall.rec.id

\* C23: Embedding validation. An upsert of a record whose embedding is empty
\* or holds a NaN or an infinity throws and leaves table files and the vector
\* table as they were.
C23_InvalidEmbeddingRejected ==
  [][(lastCall'.op = "upsert" /\ NonFinite(lastCall'.rec.embedding)) =>
       /\ ~lastCall'.ok
       /\ files' = files
       /\ vec' = vec
       /\ vecDim' = vecDim]_vars

\* C24: Dimension mismatch. With a vector table of dimension d, an upsert of
\* a valid embedding of another length throws, and the vector table is then
\* one of the new length without the entries it had.
C24_MismatchRebuilds ==
  [][(/\ lastCall'.op = "upsert"
      /\ ~NonFinite(lastCall'.rec.embedding)
      /\ vecDim # 0
      /\ Len(lastCall'.rec.embedding) # vecDim) =>
       /\ ~lastCall'.ok
       /\ vecDim' = Len(lastCall'.rec.embedding)
       /\ DOMAIN vec' = {}]_vars

\* C25: Constant dimensionality. The embeddings stored in the vector table
\* all have the same length.
C25_ConstantDimension ==
  \A a \in DOMAIN vec, b \in DOMAIN vec : Len(vec[a]) = Len(vec[b])

C25_Witness ==
  /\ Cardinality(DOMAIN vec) = 2
  /\ vecDim = 1
  /\ lastCall.op = "upsert"
  /\ lastCall.ok

\* C27: retrieveByEmbedding(q, limit), q a vector of the length of the
\* stored embeddings, returns min(limit, number of stored embeddings)
\* candidates, in non-increasing order of similarity, and no stored embedding
\* left out is more similar to q than a returned one.
C27_RetrieveTopSimilar ==
  (lastCall.op = "retrieve"
     /\ \A id \in DOMAIN vec : Len(vec[id]) = Len(lastCall.query)) =>
    /\ lastCall.ok
    /\ Len(lastCall.list) = Min(lastCall.limit, Cardinality(DOMAIN vec))
    /\ \A n \in 1..(Len(lastCall.list) - 1) :
         lastCall.list[n].score >= lastCall.list[n + 1].score
    /\ \A id \in DOMAIN vec :
         (\A n \in DOMAIN lastCall.list : lastCall.list[n].rec.id # id) =>
           \A n \in DOMAIN lastCall.list :
             Unit - Distance(lastCall.query, vec[id]) <= lastCall.list[n].score

\* C28: Table files and the vector table stay in step: they hold the same
\* ids (vectorCount() = count()), through upserts that return or throw and
\* through re-opening the store.
C28_TablesInStep ==
  /\ FileIds = DOMAIN vec
  /\ vectorCount = count

\* ---------------------------------------------- records under later indexing
FilePaths == { files[k].path : k \in DOMAIN files }

\* C26: No implicit deletion. Whatever step indexPath or indexFile takes,
\* successful or failed, forced or not, count() does not decrease, every path
\* that had a record still has one, and every id that had a record still has
\* one, for the same path.
C26_NoImplicitDeletion ==
  [][ /\ count' >= count
      /\ \A p \in FilePaths : getByPath(p)' # Null
      /\ \A id \in FileIds :
           /\ getById(id)' # Null
           /\ getById(id)'.path = getById(id).path ]_vars

\* C26 witness: a forced indexPath over two indexed files is done, one file
\* re-indexed and the other failed, and both records are there.
C26_Witness ==
  /\ runPc = "done"
  /\ force
  /\ fstate[F_readme] = "errored"
  /\ fstate[F_notes] = "completed"
  /\ getByPath(F_readme) # Null
  /\ getByPath(F_notes) # Null

\* C29: No partial record. A call reaches its embed call only from its
\* summarize call, the store is written only by the step that ends an embed
\* call with the return of indexFile, and the step in which the indexFile
\* call of a file fails (extraction, summarize, embed) and the step in which
\* the file is reported as failed leave the store as it was: no new record,
\* the stored ones unchanged.
C29_NoPartialRecord ==
  [][ /\ \A f \in AllFiles :
           /\ (rtask'[f].pc = "embed" /\ rtask[f].pc # "embed")
                => rtask[f].pc = "summarize"
           /\ (rtask'[f].pc = "rejected" /\ rtask[f].pc # "rejected")
                => UNCHANGED storeVars
           /\ (fstate[f] = "processing" /\ fstate'[f] = "errored")
                => UNCHANGED storeVars
      /\ (solo'.pc = "embed" /\ solo.pc # "embed") => solo.pc = "summarize"
      /\ (solo.pc = "summarize" /\ solo'.pc = "idle") => UNCHANGED storeVars
      /\ ~(UNCHANGED storeVars)
           => \/ solo.pc = "embed" /\ solo'.pc = "idle"
              \/ \E f \in AllFiles :
                   /\ rtask[f].pc = "embed"
                   /\ rtask'[f].pc = "returned" ]_vars

\* C29 witness: the file was indexed, then edited, and the forced indexPath
\* that re-indexed it failed on it: the record is the one of the old content.
C29_Witness ==
  /\ runPc = "done"
  /\ force
  /\ fstate[F_readme] = "errored"
  /\ getByPath(F_readme) # Null
  /\ getByPath(F_readme).modifiedAt # ver[F_readme]
  /\ count = 1

\* C30: Termination of indexing. When the event loop runs what is ready and
\* every provider call eventually returns or fails, an indexPath call that
\* has listed its files eventually returns its statistics, for a positive,
\* an absent or zero, and a negative concurrency option.
C30_IndexPathTerminates == (runPc = "filter") ~> (runPc = "done")

====
